---- MODULE Spec2Model ----
(***************************************************************************)
(* Githubbeat (beater/githubbeat.go): the Run loop, Stop, the collection   *)
(* goroutines of collectReposEvents and collectOrgsEvents, and the         *)
(* aggregation of one repository by newFullRepoEvent.                      *)
(*                                                                         *)
(* Strings are sequences of one-character strings, the zero value of a     *)
(* slice is <<>>, of a map the empty function, of a pointer or an error    *)
(* Nil.  A call of the GitHub client is in flight from the step that       *)
(* issues it to the step in which it returns; the statements between a     *)
(* return and the next call do not block and belong to the returning step. *)
(***************************************************************************)
EXTENDS Integers, Sequences, FiniteSets, TLC

\* ------------------------------------------------------------ bounds
MaxLen == 3          \* longest configured target string
MaxGoroutines == 2   \* collection goroutines launched in one run
MaxListed == 2
MaxWeeks == 2       \* weeks in a participation array
MaxCommits == 1     \* commits of one week
MaxBytes == 1       \* bytes of one language
MaxItems == 2       \* forks, contributors, branches and releases of a repository       \* repositories in an organization's listing

\* ------------------------------------------------------------ values
Nil == "nil"               \* the nil error
NilPtr == [nil |-> TRUE]   \* a nil pointer
Sep == "/"
Alphabet == {"a", "b", Sep}
ErrRemote == "remote error"
ErrDeadline == "context deadline exceeded"
ErrCanceled == "context canceled"

Kinds == <<"license", "fork_list", "contributor_list", "branch_list",
           "languages", "participation", "downloads">>
KindSet == {Kinds[i] : i \in 1..Len(Kinds)}
KindIndex(kind) == CHOOSE i \in 1..Len(Kinds) : Kinds[i] = kind

StringsUpTo(n) == UNION {[1..k -> Alphabet] : k \in 0..n}

\* strings.Split(s, "/")
RECURSIVE Split(_)
Split(s) ==
    IF \A i \in 1..Len(s) : s[i] # Sep THEN <<s>>
    ELSE LET i == CHOOSE i \in 1..Len(s) : s[i] = Sep /\ \A j \in 1..(i-1) : s[j] # Sep
         IN  <<SubSeq(s, 1, i-1)>> \o Split(SubSeq(s, i+1, Len(s)))

\* the test of collectReposEvents on the split target
InvalidFormat(r) == Len(r) # 2

RECURSIVE sumIntArray(_)
sumIntArray(array) ==
    IF array = <<>> THEN 0 ELSE Head(array) + sumIntArray(Tail(array))

SeqMap(Op(_), s) == [i \in 1..Len(s) |-> Op(s[i])]
Perms(S) == {p \in [1..Cardinality(S) -> S] : \A x \in S : \E i \in DOMAIN p : p[i] = x}

\* ------------------------------------------------------------ the remote
\* What the GitHub API holds; the same data in every call of a run.
RemoteRepo(owner, name) ==
    [Name |-> name, Owner |-> [Login |-> owner], StargazersCount |-> 5,
     ForksCount |-> 1, WatchersCount |-> 4, OpenIssuesCount |-> 3,
     SubscribersCount |-> 2, NetworkCount |-> 6, Size |-> 7]

ListedNames == <<<<"a">>, <<"b">>, <<"a", "a">>, <<"b", "b">>>>
RemoteListing(org, n) == [i \in 1..n |-> RemoteRepo(org, ListedNames[i])]

\* names for the items of a listing: fork owners, users, branches, releases
ForkOwners == <<<<"a", "a", "a">>, <<"b", "b", "b">>, <<"a", "a", "b">>, <<"a", "b", "b">>>>
Users == <<"u1", "u2", "u3", "u4">>
Branches == <<"master", "dev", "next", "old">>
Tags == <<"v1", "v2", "v3", "v4">>

\* rem: the remote's data: its language map, its participation statistics and the
\* number of items of each of its listings
RemoteValue(kind, owner, name, rem) ==
    CASE kind = "license" ->
           [Path |-> "LICENSE", SHA |-> "sha-l",
            License |-> [Key |-> "mit", Name |-> "MIT License", SPDXID |-> "MIT"]]
      [] kind = "fork_list" -> [i \in 1..rem.items |-> RemoteRepo(ForkOwners[i], name)]
      [] kind = "contributor_list" ->
           [i \in 1..rem.items |-> [Login |-> Users[i], Contributions |-> i]]
      [] kind = "branch_list" ->
           [i \in 1..rem.items |-> [Name |-> Branches[i], Commit |-> [SHA |-> "sha-b"]]]
      [] kind = "languages" -> rem.langs
      [] kind = "participation" -> rem.part
      [] kind = "downloads" ->
           [i \in 1..rem.items |-> [ID |-> i, Name |-> Tags[i], Assets |-> <<2, 3>>]]

\* what a failed call returns beside its error
ZeroValue(kind) ==
    CASE kind \in {"license", "participation"} -> NilPtr
      [] kind = "languages" -> <<>>
      [] OTHER -> <<>>

\* a repository the remote can serve: GET /repos/{owner}/{name}
Exists(holds, owner, name) == holds /\ owner # <<>> /\ name # <<>>

\* ------------------------------------------------------------ event sections
\* float64(count) / float64(sum) as the exact fraction; with den = 0 the IEEE
\* division gives NaN (0/0) or +Inf
Ratio(count, sum) == [num |-> count, den |-> sum]

createListMapStrNoError(list, err) ==
    [count |-> Len(list), list |-> list, error |-> Nil]
createListMapStr(list, err) ==
    [count |-> Len(list), list |-> list, error |-> err]

appendErrorNever(input, err) == input
appendError(input, err) ==
    IF err # Nil
    THEN [key \in DOMAIN input \cup {"error"} |-> IF key = "error" THEN err ELSE input[key]]
    ELSE input

extractRepoData(repo) ==
    [repo |-> repo.Name, owner |-> repo.Owner.Login,
     stargazers |-> repo.StargazersCount, forks |-> repo.ForksCount,
     watchers |-> repo.WatchersCount, open_issues |-> repo.OpenIssuesCount,
     subscribers |-> repo.SubscribersCount, network |-> repo.NetworkCount,
     size |-> repo.Size]

extractLicenseData(repositoryLicense) ==
    LET out == [path |-> IF repositoryLicense = NilPtr THEN "" ELSE repositoryLicense.Path,
                sha  |-> IF repositoryLicense = NilPtr THEN "" ELSE repositoryLicense.SHA]
        license == IF repositoryLicense = NilPtr THEN NilPtr ELSE repositoryLicense.License
    IN  IF license # NilPtr
        THEN out @@ [key |-> license.Key, name |-> license.Name, spdx_id |-> license.SPDXID]
        ELSE out

collectLicenseInfo(license, err) == appendError(extractLicenseData(license), err)

extractParticipationDataAllAsCommunity(participation) ==
    LET all   == IF participation # NilPtr THEN sumIntArray(participation.All) ELSE 0
        owner == IF participation # NilPtr THEN sumIntArray(participation.Owner) ELSE 0
    IN  [all |-> all, owner |-> owner, community |-> all, period |-> "year"]
extractParticipationData(participation) ==
    LET all   == IF participation # NilPtr THEN sumIntArray(participation.All) ELSE 0
        owner == IF participation # NilPtr THEN sumIntArray(participation.Owner) ELSE 0
    IN  [all |-> all, owner |-> owner, community |-> all - owner, period |-> "year"]

collectParticipation(participation, err) ==
    appendError(extractParticipationData(participation), err)

collectForkInfoNoErrorSlot(forks, err) ==
    appendError([count |-> Len(forks), list |-> SeqMap(extractRepoData, forks)], err)
collectForkInfo(forks, err) == createListMapStr(SeqMap(extractRepoData, forks), err)

getContributions(contributors, err) ==
    LET userInfo(c) == [name |-> c.Login, contributions |-> c.Contributions]
    IN  createListMapStr(IF err = Nil THEN SeqMap(userInfo, contributors) ELSE <<>>, err)

getBranches(branches, err) ==
    LET branchInfo(b) == [name |-> b.Name, sha |-> b.Commit.SHA]
    IN  createListMapStr(IF err = Nil THEN SeqMap(branchInfo, branches) ELSE <<>>, err)

\* order: the order in which this range over the map visits its keys
collectLanguageInfo(langs, err, order) ==
    LET sum == sumIntArray([i \in 1..Len(order) |-> langs[order[i]]])
        entry(lang) == [lang |-> lang, bytes |-> langs[lang], ratio |-> Ratio(langs[lang], sum)]
    IN  createListMapStr(SeqMap(entry, order), err)

collectDownloads(releases, err) ==
    LET entry(r) == [id |-> r.ID, name |-> r.Name, downloads |-> sumIntArray(r.Assets)]
        out == SeqMap(entry, releases)
    IN  [total_downloads |-> sumIntArray([i \in 1..Len(out) |-> out[i].downloads]),
         releases |-> out, error |-> err]

\* the section newFullRepoEvent stores under data[kind], from what the call returned
Section(kind, value, err, order) ==
    CASE kind = "license" -> collectLicenseInfo(value, err)
      [] kind = "fork_list" -> collectForkInfo(value, err)
      [] kind = "contributor_list" -> getContributions(value, err)
      [] kind = "branch_list" -> getBranches(value, err)
      [] kind = "languages" -> collectLanguageInfo(value, err, order)
      [] kind = "participation" -> collectParticipation(value, err)
      [] kind = "downloads" -> collectDownloads(value, err)

\* ------------------------------------------------------------ state
VARIABLES
    cfg,        \* bt.config: AccessToken, Repos, Orgs
    remote,     \* the GitHub API of this run: the calls that may fail, whether it
                \* holds the repositories asked for, the size of an organization's
                \* listing, the language map of a repository
    runPc,      \* where Run is: "connect", "newClient", "select", "returned"
    runErr,     \* what Run returned
    client,     \* bt.client: "nil", "open", "closed"
    done,       \* bt.done is closed
    stopCalled, \* Stop has been called
    crashed,    \* the process died of a panic
    rootCtx,    \* rootCtx.Err(), "none" before Run creates it
    jobCtx,     \* jobCtx.Err() of every pass, in tick order
    gor,        \* the collection goroutines, in launch order
    issued,     \* every call made on the GitHub client
    logged,     \* every logp.Err of the collection goroutines
    published   \* per goroutine, its PublishEvent calls: the event, with the errors
                \* its seven calls returned, the calls the deadline found in flight
                \* and the state of bt.client

vars == <<cfg, remote, runPc, runErr, client, done, stopCalled, crashed, rootCtx,
          jobCtx, gor, issued, logged, published>>

GoodTarget == <<"a", Sep, "b">>
OrgName == <<"b">>
OtherOrg == <<"b", "a">>
OneLang == [l \in {"Go"} |-> 3]
TwoLangs == [l \in {"Go", "C"} |-> IF l = "Go" THEN 3 ELSE 1]

Config(token, repos, orgs) == [AccessToken |-> token, Repos |-> repos, Orgs |-> orgs]
SomePart == [All |-> <<2, 1>>, Owner |-> <<1, 0>>]
Remote(mayFail, holds, listed, langs) ==
    [mayFail |-> mayFail, holds |-> holds, listed |-> listed, langs |-> langs,
     part |-> SomePart, items |-> 2]

\* every target string beside a well-formed one, on a remote that holds neither
TargetRuns ==
    {[cfg |-> Config("", <<s, GoodTarget>>, <<>>), remote |-> Remote({}, FALSE, 0, OneLang)]
       : s \in StringsUpTo(MaxLen)}
\* one organization without repositories over several ticks; two targets in one
\* tick; with failing authentication, base and listing calls
ScheduleRuns ==
    {[cfg |-> Config("t", <<>>, <<OrgName>>),
      remote |-> Remote({"auth", "list"}, TRUE, 0, OneLang)],
     [cfg |-> Config("t", <<GoodTarget>>, <<OrgName>>),
      remote |-> Remote({"get", "list"}, TRUE, MaxListed, OneLang)],
     [cfg |-> Config("", <<>>, <<OrgName, OtherOrg>>),
      remote |-> Remote({"list"}, TRUE, 1, OneLang)]}
\* one repository whose seven calls may each fail, beside an empty organization
AggregateRuns ==
    {[cfg |-> Config("", <<GoodTarget>>, <<OrgName>>),
      remote |-> Remote(KindSet, TRUE, 0, TwoLangs)]}

Runs == TargetRuns \cup ScheduleRuns \cup AggregateRuns

Init ==
    /\ \E run \in Runs : cfg = run.cfg /\ remote = run.remote
    /\ runPc = "connect"
    /\ runErr = Nil
    /\ client = "nil"
    /\ done = FALSE
    /\ stopCalled = FALSE
    /\ crashed = FALSE
    /\ rootCtx = "none"
    /\ jobCtx = <<>>
    /\ gor = <<>>
    /\ issued = {}
    /\ logged = {}
    /\ published = <<>>

\* ------------------------------------------------------------ Run and Stop
\* Run, line 46
RunConnect ==
    /\ ~crashed /\ runPc = "connect"
    /\ client' = "open"
    /\ runPc' = "newClient"
    /\ UNCHANGED <<cfg, remote, runErr, done, stopCalled, crashed, rootCtx, jobCtx, gor,
                   issued, logged, published>>

\* newGithubClient: the errors it can return
newGithubClient(accessToken) ==
    IF accessToken = "" THEN {Nil}
    ELSE {Nil} \cup (IF "auth" \in remote.mayFail THEN {ErrRemote} ELSE {})

\* Run, lines 48-58
RunNewClient ==
    /\ ~crashed /\ runPc = "newClient"
    /\ \E err \in newGithubClient(cfg.AccessToken) :
         IF err # Nil
         THEN runPc' = "returned" /\ runErr' = err /\ rootCtx' = rootCtx
         ELSE runPc' = "select" /\ runErr' = runErr /\ rootCtx' = Nil
    /\ UNCHANGED <<cfg, remote, client, done, stopCalled, crashed, jobCtx, gor, issued,
                   logged, published>>

\* a goroutine as the go statement leaves it
Spawn(pass, kind, target) ==
    [pass |-> pass, kind |-> kind, target |-> target, pc |-> "start", repos |-> <<>>,
     idx |-> 0, inflight |-> {}, base |-> <<>>, sect |-> <<>>, ret |-> <<>>, cut |-> {}]

\* collectReposEvents and collectOrgsEvents, lines 104 and 121: one goroutine per
\* target
Launched(pass) ==
    [i \in 1..Len(cfg.Repos) |-> Spawn(pass, "repo", cfg.Repos[i])]
    \o [i \in 1..Len(cfg.Orgs) |-> Spawn(pass, "org", cfg.Orgs[i])]

\* context.WithTimeout(rootCtx, ...): the new context starts with its parent's error
WithTimeout(parent) == parent

\* Run is at its select: the body of the tick case only launches goroutines
SelectReadyAfterPass == runPc = "select" /\ \A g \in 1..Len(gor) : gor[g].pc = "done"
SelectReady == runPc = "select"

\* Run, lines 65-70: one tick
Tick ==
    /\ ~crashed /\ SelectReady
    /\ Len(gor) + Len(cfg.Repos) + Len(cfg.Orgs) <= MaxGoroutines
    /\ jobCtx' = Append(jobCtx, WithTimeout(rootCtx))
    /\ LET new == Launched(Len(jobCtx) + 1)
       IN  /\ gor' = gor \o new
           /\ published' = published \o [i \in 1..Len(new) |-> <<>>]
    /\ UNCHANGED <<cfg, remote, runPc, runErr, client, done, stopCalled, crashed, rootCtx,
                   issued, logged>>

\* cancelling a context: one that already has an error keeps it
Cancel(err) == IF err = Nil THEN ErrCanceled ELSE err

\* cancelRootCtx() reaches every context derived from rootCtx
CancelRootOnly(ctxs) == ctxs
CancelDerived(ctxs) == [p \in 1..Len(ctxs) |-> Cancel(ctxs[p])]

\* the timer of pass p's context fires: it is that pass's own context
ExpireShared(ctxs, p) == [q \in 1..Len(ctxs) |-> IF ctxs[q] = Nil THEN ErrDeadline ELSE ctxs[q]]
Expire(ctxs, p) == [ctxs EXCEPT ![p] = ErrDeadline]

\* Run, lines 62-64, and the deferred jobCancel of every pass
RunObserveDone ==
    /\ ~crashed /\ SelectReady
    /\ done
    /\ rootCtx' = Cancel(rootCtx)
    /\ jobCtx' = CancelDerived(jobCtx)
    /\ runPc' = "returned"
    /\ UNCHANGED <<cfg, remote, runErr, client, done, stopCalled, crashed, gor, issued,
                   logged, published>>

\* Stop, lines 76-79; on a nil bt.client the call of Close panics. Close and
\* close(bt.done) do not block and are one step
Stop ==
    /\ ~crashed /\ ~stopCalled
    /\ stopCalled' = TRUE
    /\ IF client = "nil"
       THEN crashed' = TRUE /\ UNCHANGED <<client, done>>
       ELSE client' = "closed" /\ done' = TRUE /\ crashed' = crashed
    /\ UNCHANGED <<cfg, remote, runPc, runErr, rootCtx, jobCtx, gor, issued, logged,
                   published>>

\* the deadline of pass p elapses (the timer of context.WithTimeout)
Timeout(p) ==
    /\ ~crashed
    /\ jobCtx[p] = Nil
    /\ jobCtx' = Expire(jobCtx, p)
    /\ gor' = [g \in 1..Len(gor) |->
                 IF gor[g].pass = p /\ gor[g].pc = "sub"
                 THEN [gor[g] EXCEPT !.cut = gor[g].inflight] ELSE gor[g]]
    /\ UNCHANGED <<cfg, remote, runPc, runErr, client, done, stopCalled, crashed, rootCtx,
                   issued, logged, published>>

\* ------------------------------------------------------------ collection goroutines
\* the error a call on the GitHub client returns: the context's own once the
\* context is done, else the remote's
FetchErrsIgnoringContext(pass, fetch, exists) ==
    IF ~exists THEN {ErrRemote}
    ELSE {Nil} \cup (IF fetch \in remote.mayFail THEN {ErrRemote} ELSE {})
FetchErrs(pass, fetch, exists) ==
    IF jobCtx[pass] # Nil THEN {jobCtx[pass]}
    ELSE IF ~exists THEN {ErrRemote}
    ELSE {Nil} \cup (IF fetch \in remote.mayFail THEN {ErrRemote} ELSE {})

Call(g, fetch, owner, name) == [g |-> g, fetch |-> fetch, owner |-> owner, name |-> name]

\* time.Now(): the ticks taken so far
Now == Len(jobCtx)

\* newFullRepoEvent: the calls it issues as it starts, and once a call has returned
StartedAtBegin == {Kinds[1]}
StartedAfterRest(kind) == {Kinds[i] : i \in (KindIndex(kind) + 1)..Len(Kinds)}
StartedAfter(kind) ==
    IF KindIndex(kind) < Len(Kinds) THEN {Kinds[KindIndex(kind) + 1]} ELSE {}

\* collectForkInfo, lines 245-247: the calls made for the forks of a listing: none,
\* a fork only goes through extractRepoData
ForkCallsPerFork(g, kind, value) ==
    IF kind = "fork_list"
    THEN {Call(g, k, value[i].Owner.Login, value[i].Name) : k \in KindSet, i \in DOMAIN value}
    ELSE {}
ForkCalls(g, kind, value) == {}

Identity(repo) == [owner |-> repo.Owner.Login, name |-> repo.Name]

\* newFullRepoEvent, lines 184-195: the base data, and the first call
BeginEvent(gr, repos, idx) ==
    [gr EXCEPT !.pc = "sub", !.repos = repos, !.idx = idx,
               !.base = ("@timestamp" :> Now) @@ ("type" :> "githubbeat")
                        @@ extractRepoData(repos[idx]),
               !.sect = <<>>, !.ret = <<>>, !.cut = {},
               !.inflight = StartedAtBegin]

BeginCalls(g, repo) ==
    {Call(g, kind, repo.Owner.Login, repo.Name) : kind \in StartedAtBegin}

\* a goroutine that returned
FinishedUnlessGet(gr) ==
    IF gr.pc = "get"
    THEN LET r == Split(gr.target) IN BeginEvent(gr, <<RemoteRepo(r[1], r[2])>>, 1)
    ELSE [gr EXCEPT !.pc = "done", !.repos = <<>>, !.idx = 0, !.inflight = {},
                    !.base = <<>>, !.sect = <<>>, !.ret = <<>>, !.cut = {}]
Finished(gr) ==
    [gr EXCEPT !.pc = "done", !.repos = <<>>, !.idx = 0, !.inflight = {},
               !.base = <<>>, !.sect = <<>>, !.ret = <<>>, !.cut = {}]

\* collectReposEvents, lines 123-130
RepoStart(g) ==
    /\ ~crashed
    /\ gor[g].kind = "repo" /\ gor[g].pc = "start"
    /\ LET r == Split(gor[g].target)
       IN  IF InvalidFormat(r)
           THEN /\ logged' = logged \cup {[g |-> g, msg |-> "Invalid repo name format", err |-> Nil]}
                /\ gor' = [gor EXCEPT ![g] = Finished(@)]
                /\ issued' = issued
           ELSE /\ gor' = [gor EXCEPT ![g].pc = "get"]
                /\ issued' = issued \cup {Call(g, "get", r[1], r[2])}
                /\ logged' = logged
    /\ UNCHANGED <<cfg, remote, runPc, runErr, client, done, stopCalled, crashed, rootCtx,
                   jobCtx, published>>

\* collectReposEvents, lines 130-137: Repositories.Get returns
GetReturn(g) ==
    /\ ~crashed
    /\ gor[g].pc = "get"
    /\ LET r == Split(gor[g].target)
       IN  \E err \in FetchErrs(gor[g].pass, "get", Exists(remote.holds, r[1], r[2])) :
             IF err # Nil
             THEN /\ logged' = logged \cup {[g |-> g, msg |-> "Failed to collect event", err |-> err]}
                  /\ gor' = [gor EXCEPT ![g] = Finished(@)]
                  /\ issued' = issued
             ELSE /\ gor' = [gor EXCEPT ![g] = BeginEvent(@, <<RemoteRepo(r[1], r[2])>>, 1)]
                  /\ issued' = issued \cup BeginCalls(g, RemoteRepo(r[1], r[2]))
                  /\ logged' = logged
    /\ UNCHANGED <<cfg, remote, runPc, runErr, client, done, stopCalled, crashed, rootCtx,
                   jobCtx, published>>

\* collectOrgsEvents, line 106
OrgStart(g) ==
    /\ ~crashed
    /\ gor[g].kind = "org" /\ gor[g].pc = "start"
    /\ gor' = [gor EXCEPT ![g].pc = "list"]
    /\ issued' = issued \cup {Call(g, "list", gor[g].target, <<>>)}
    /\ UNCHANGED <<cfg, remote, runPc, runErr, client, done, stopCalled, crashed, rootCtx,
                   jobCtx, logged, published>>

\* collectOrgsEvents, lines 106-114: Repositories.ListByOrg returns
ListReturn(g) ==
    /\ ~crashed
    /\ gor[g].pc = "list"
    /\ \E err \in FetchErrs(gor[g].pass, "list", TRUE) :
         LET repos == RemoteListing(gor[g].target, remote.listed)
         IN  IF err # Nil
             THEN /\ logged' = logged \cup
                                 {[g |-> g, msg |-> "Failed to collect org repos listing",
                                   err |-> err]}
                  /\ gor' = [gor EXCEPT ![g] = Finished(@)]
                  /\ issued' = issued
             ELSE IF repos = <<>>
             THEN /\ gor' = [gor EXCEPT ![g] = Finished(@)]
                  /\ UNCHANGED <<issued, logged>>
             ELSE /\ gor' = [gor EXCEPT ![g] = BeginEvent(@, repos, 1)]
                  /\ issued' = issued \cup BeginCalls(g, repos[1])
                  /\ logged' = logged
    /\ UNCHANGED <<cfg, remote, runPc, runErr, client, done, stopCalled, crashed, rootCtx,
                   jobCtx, published>>

\* newFullRepoEvent goes on whatever the call returned, until none is in flight
AfterReturnGiveUp(inflight, err) ==
    IF err # Nil THEN "done" ELSE IF inflight = {} THEN "publish" ELSE "sub"
AfterReturnFirst(inflight, err) == "publish"
AfterReturn(inflight, err) == IF inflight = {} THEN "publish" ELSE "sub"

\* newFullRepoEvent, lines 195-203: one of its calls returns and its section is
\* stored; after the last one the event is complete
SubReturn(g) ==
    /\ ~crashed
    /\ gor[g].pc = "sub"
    /\ LET gr == gor[g]
           repo == gr.repos[gr.idx]
       IN  \E kind \in gr.inflight :
           \E err \in FetchErrs(gr.pass, kind, TRUE) :
             LET value == IF err = Nil
                          THEN RemoteValue(kind, repo.Owner.Login, repo.Name, remote)
                          ELSE ZeroValue(kind)
             IN  \E order \in (IF kind = "languages" THEN Perms(DOMAIN value) ELSE {<<>>}) :
                   LET ret == (kind :> err) @@ gr.ret
                       next == StartedAfter(kind) \ DOMAIN ret
                       inflight == (gr.inflight \ {kind}) \cup next
                   IN  /\ gor' = [gor EXCEPT
                            ![g].sect = (kind :> Section(kind, value, err, order)) @@ gr.sect,
                            ![g].ret = ret,
                            ![g].inflight = inflight,
                            ![g].pc = AfterReturn(inflight, err)]
                       /\ issued' = issued \cup ForkCalls(g, kind, value) \cup
                            {Call(g, k, repo.Owner.Login, repo.Name) : k \in next}
    /\ UNCHANGED <<cfg, remote, runPc, runErr, client, done, stopCalled, crashed, rootCtx,
                   jobCtx, logged, published>>

\* the common.MapStr newFullRepoEvent returns
Event(gr) == gr.base @@ gr.sect

\* the range over the repositories of a listing has more to visit
MoreReposNever(gr) == FALSE
MoreRepos(gr) == gr.idx < Len(gr.repos)

\* bt.client.PublishEvent(...), lines 114 and 137; an organization's goroutine goes
\* on to its next repository
Publish(g) ==
    /\ ~crashed
    /\ gor[g].pc = "publish"
    /\ LET gr == gor[g]
       IN  /\ published' = [published EXCEPT ![g] =
                              Append(@, [event |-> Event(gr), ret |-> gr.ret, cut |-> gr.cut,
                                         client |-> client])]
           /\ IF MoreRepos(gr)
              THEN /\ gor' = [gor EXCEPT ![g] = BeginEvent(@, gr.repos, gr.idx + 1)]
                   /\ issued' = issued \cup BeginCalls(g, gr.repos[gr.idx + 1])
              ELSE /\ gor' = [gor EXCEPT ![g] = Finished(@)]
                   /\ issued' = issued
    /\ UNCHANGED <<cfg, remote, runPc, runErr, client, done, stopCalled, crashed, rootCtx,
                   jobCtx, logged>>

Next ==
    \/ RunConnect
    \/ RunNewClient
    \/ Tick
    \/ RunObserveDone
    \/ Stop
    \/ \E p \in 1..Len(jobCtx) : Timeout(p)
    \/ \E g \in 1..Len(gor) : RepoStart(g)
    \/ \E g \in 1..Len(gor) : GetReturn(g)
    \/ \E g \in 1..Len(gor) : OrgStart(g)
    \/ \E g \in 1..Len(gor) : ListReturn(g)
    \/ \E g \in 1..Len(gor) : SubReturn(g)
    \/ \E g \in 1..Len(gor) : Publish(g)

Spec == Init /\ [][Next]_vars

\* ------------------------------------------------------------ aggregation alone
\* The aggregation of one repository over the data a remote can hold: Run has
\* connected and taken its first tick, and only the goroutines of that tick step.
IntArrays == UNION {[1..n -> 0..MaxCommits] : n \in 0..MaxWeeks}
Participations == {NilPtr} \cup {[All |-> a, Owner |-> o] : a \in IntArrays, o \in IntArrays}
LangNames == {"Go", "C"}
LangMaps == UNION {[S -> 0..MaxBytes] : S \in SUBSET LangNames}
ListKinds == {"fork_list", "contributor_list", "branch_list", "languages"}

\* every participation result, a call that may fail
ParticipationRuns ==
    {[cfg |-> Config("", <<GoodTarget>>, <<>>),
      remote |-> [Remote({"participation"}, TRUE, 0, OneLang) EXCEPT !.part = p]]
       : p \in Participations}
\* every language map, the repository aggregated twice
LanguageRuns ==
    {[cfg |-> Config("", <<GoodTarget, GoodTarget>>, <<>>),
      remote |-> Remote({"languages"}, TRUE, 0, m)] : m \in LangMaps}
\* listings of every length, calls that may fail
ListRuns ==
    {[cfg |-> Config("", <<GoodTarget>>, <<>>),
      remote |-> [Remote(ListKinds, TRUE, 0, TwoLangs) EXCEPT !.items = n]]
       : n \in 0..MaxItems}

DataRuns == ParticipationRuns \cup LanguageRuns \cup ListRuns

DataInit ==
    /\ \E run \in DataRuns : cfg = run.cfg /\ remote = run.remote
    /\ runPc = "select"
    /\ runErr = Nil
    /\ client = "open"
    /\ done = FALSE
    /\ stopCalled = FALSE
    /\ crashed = FALSE
    /\ rootCtx = Nil
    /\ jobCtx = <<WithTimeout(Nil)>>
    /\ gor = [i \in 1..Len(cfg.Repos) |-> Spawn(1, "repo", cfg.Repos[i])]
    /\ issued = {}
    /\ logged = {}
    /\ published = [i \in 1..Len(cfg.Repos) |-> <<>>]

DataNext ==
    \/ \E g \in 1..Len(gor) : RepoStart(g)
    \/ \E g \in 1..Len(gor) : GetReturn(g)
    \/ \E g \in 1..Len(gor) : SubReturn(g)
    \/ \E g \in 1..Len(gor) : Publish(g)

DataSpec == DataInit /\ [][DataNext]_vars

\* Run is scheduled, and its select takes the closed done channel in the end
FairSpec == Spec /\ WF_vars(RunConnect) /\ WF_vars(RunNewClient) /\ WF_vars(RunObserveDone)

\* ------------------------------------------------------------ properties
Goroutines == 1..Len(gor)
Logged(g, msg) == \E l \in logged : l.g = g /\ l.msg = msg
PublishedRepos(g) ==
    [i \in 1..Len(published[g]) |->
       [owner |-> published[g][i].event.owner, name |-> published[g][i].event.repo]]
SubCalls(g) == {c \in issued : c.g = g /\ c.fetch \in KindSet}

\* the repositories whose base data goroutine g obtains when its Get or ListByOrg
\* succeeds
Obtained(g) ==
    IF gor[g].kind = "repo"
    THEN LET r == Split(gor[g].target) IN <<[owner |-> r[1], name |-> r[2]]>>
    ELSE [i \in 1..remote.listed |-> [owner |-> gor[g].target, name |-> ListedNames[i]]]

\* C1: every repository whose base data was obtained, by Get or by an
\* organization's listing, has exactly one event handed to PublishEvent once its
\* goroutine is through, whatever its seven calls returned; and none twice before
C1_OneEventPerRepository ==
    \A g \in Goroutines :
      LET gr == gor[g] IN
        /\ gr.pc \in {"start", "get", "list"} => published[g] = <<>>
        /\ gr.pc \in {"sub", "publish"} =>
             PublishedRepos(g) = [i \in 1..(gr.idx - 1) |-> Identity(gr.repos[i])]
        /\ (gr.pc = "done" /\ \A l \in logged : l.g # g) => PublishedRepos(g) = Obtained(g)

\* C1 witness: an event was published although all seven calls failed at the remote
C1_Witness ==
    \E g \in Goroutines : \E i \in 1..Len(published[g]) :
      \A kind \in KindSet : published[g][i].ret[kind] = ErrRemote

AllPublished == UNION {{published[g][i] : i \in 1..Len(published[g])} : g \in Goroutines}

\* the error field of a section holds an error
ErrorSet(section) == "error" \in DOMAIN section /\ section.error # Nil

\* the section holds what the remote returned for (owner, name)
Populated(kind, section, owner, name) ==
    LET v == RemoteValue(kind, owner, name, remote) IN
    CASE kind = "license" ->
           /\ section.path = v.Path /\ section.sha = v.SHA
           /\ section.key = v.License.Key /\ section.name = v.License.Name
           /\ section.spdx_id = v.License.SPDXID
      [] kind = "fork_list" ->
           /\ section.count = Len(v) /\ Len(section.list) = Len(v)
           /\ \A i \in 1..Len(v) : /\ section.list[i].repo = v[i].Name
                                   /\ section.list[i].owner = v[i].Owner.Login
                                   /\ section.list[i].stargazers = v[i].StargazersCount
                                   /\ section.list[i].size = v[i].Size
      [] kind = "contributor_list" ->
           /\ section.count = Len(v) /\ Len(section.list) = Len(v)
           /\ \A i \in 1..Len(v) : /\ section.list[i].name = v[i].Login
                                   /\ section.list[i].contributions = v[i].Contributions
      [] kind = "branch_list" ->
           /\ section.count = Len(v) /\ Len(section.list) = Len(v)
           /\ \A i \in 1..Len(v) : /\ section.list[i].name = v[i].Name
                                   /\ section.list[i].sha = v[i].Commit.SHA
      [] kind = "languages" ->
           /\ section.count = Cardinality(DOMAIN v) /\ Len(section.list) = Cardinality(DOMAIN v)
           /\ \A l \in DOMAIN v : \E i \in 1..Len(section.list) :
                section.list[i].lang = l /\ section.list[i].bytes = v[l]
      [] kind = "participation" ->
           /\ section.all = sumIntArray(v.All) /\ section.owner = sumIntArray(v.Owner)
      [] kind = "downloads" ->
           /\ Len(section.releases) = Len(v)
           /\ \A i \in 1..Len(v) : /\ section.releases[i].id = v[i].ID
                                   /\ section.releases[i].name = v[i].Name
                                   /\ section.releases[i].downloads = sumIntArray(v[i].Assets)

\* C2: in every published event the error field of a section is set if and only
\* if that section's own call failed, and then holds that call's error; every
\* section whose call succeeded holds the data the call returned
C2_ErrorInOwnSectionOnly ==
    \A e \in AllPublished : \A kind \in KindSet :
      /\ ErrorSet(e.event[kind]) <=> e.ret[kind] # Nil
      /\ ErrorSet(e.event[kind]) => e.event[kind].error = e.ret[kind]
      /\ e.ret[kind] = Nil => Populated(kind, e.event[kind], e.event.owner, e.event.repo)

\* C2 witness: a published event whose license call alone failed
C2_Witness ==
    \E e \in AllPublished :
      /\ e.ret["license"] = ErrRemote /\ ErrorSet(e.event["license"])
      /\ \A kind \in KindSet \ {"license"} : e.ret[kind] = Nil

\* C3: once the Get of an explicit repository has failed, its goroutine is through
\* without any of the seven calls issued and without an event published; and the
\* step in which the Get fails leaves every other goroutine as it was
C3_FailedGetPublishesNothing ==
    /\ [](\A g \in Goroutines :
            Logged(g, "Failed to collect event") =>
              /\ gor[g].pc = "done" /\ published[g] = <<>> /\ SubCalls(g) = {})
    /\ [][\A g \in Goroutines :
            (Logged(g, "Failed to collect event")' /\ ~Logged(g, "Failed to collect event")) =>
              \A h \in Goroutines \ {g} : gor'[h] = gor[h] /\ published'[h] = published[h]]_vars

\* C3 witness: the Get of one target failed and another target of the same pass
\* was fetched and published
C3_Witness ==
    \E g, h \in Goroutines :
      /\ g # h /\ gor[g].pass = gor[h].pass
      /\ Logged(g, "Failed to collect event") /\ published[g] = <<>>
      /\ Len(published[h]) > 0

\* a target that splits on "/" into exactly two non-empty parts
WellFormed(target) ==
    LET r == Split(target) IN Len(r) = 2 /\ r[1] # <<>> /\ r[2] # <<>>
GetCalls(g) == {c \in issued : c.g = g /\ c.fetch = "get"}

\* C4: a goroutine of collectReposEvents that has looked at its target has issued
\* the Get with the target's two parts as owner and name if the target is
\* well-formed; for any other target it has issued no call and logged the format
\* error
C4_OnlyWellFormedTargetsFetched ==
    \A g \in Goroutines :
      (gor[g].kind = "repo" /\ gor[g].pc # "start") =>
        LET r == Split(gor[g].target) IN
          IF WellFormed(gor[g].target)
          THEN /\ GetCalls(g) = {Call(g, "get", r[1], r[2])}
               /\ ~Logged(g, "Invalid repo name format")
          ELSE /\ GetCalls(g) = {}
               /\ Logged(g, "Invalid repo name format")
               /\ published[g] = <<>>

\* every call the goroutine issues for a repository of its listing
Aggregated(g, id) ==
    \A kind \in KindSet : Call(g, kind, id.owner, id.name) \in issued

\* C5: an organization's goroutine whose listing failed is through without a call
\* for, or an event of, any repository; one whose listing succeeded has, once
\* through, aggregated and published every listed repository, in order; and the
\* step in which a listing fails leaves every other goroutine as it was
C5_OrganizationsIndependent ==
    /\ [](\A g \in Goroutines :
            /\ Logged(g, "Failed to collect org repos listing") =>
                 /\ gor[g].pc = "done" /\ published[g] = <<>> /\ SubCalls(g) = {}
            /\ (gor[g].kind = "org" /\ gor[g].pc = "done"
                  /\ ~Logged(g, "Failed to collect org repos listing")) =>
                 /\ PublishedRepos(g) = Obtained(g)
                 /\ \A i \in 1..Len(Obtained(g)) : Aggregated(g, Obtained(g)[i]))
    /\ [][\A g \in Goroutines :
            (Logged(g, "Failed to collect org repos listing")'
               /\ ~Logged(g, "Failed to collect org repos listing")) =>
              \A h \in Goroutines \ {g} : gor'[h] = gor[h] /\ published'[h] = published[h]]_vars

\* C5 witness: of two organizations of one pass, the listing of the first failed and
\* every listed repository of the second was published
C5_Witness ==
    \E g, h \in Goroutines :
      /\ g < h /\ gor[g].pass = gor[h].pass /\ gor[g].kind = "org" /\ gor[h].kind = "org"
      /\ Logged(g, "Failed to collect org repos listing")
      /\ gor[h].pc = "done" /\ Len(published[h]) = remote.listed /\ remote.listed > 0

\* a further case of C5: every repository of a listing of several was published
C5_WitnessSeveral ==
    \E g \in Goroutines :
      gor[g].kind = "org" /\ gor[g].pc = "done" /\ Len(published[g]) > 1

CtxErrs == {ErrDeadline, ErrCanceled}
InFlight(g) == gor[g].pc \in {"get", "list", "sub"}

\* the error (Nil for none) of the call of goroutine g that returns in this step
NewErrs(g) ==
    (IF gor[g].pc \in {"get", "list"} /\ gor'[g].pc # gor[g].pc
     THEN IF logged' # logged THEN {l.err : l \in logged' \ logged} ELSE {Nil}
     ELSE {})
    \cup
    (IF gor[g].pc = "sub"
     THEN {gor'[g].ret[kind] : kind \in DOMAIN gor'[g].ret \ DOMAIN gor[g].ret}
     ELSE {})

\* Run returned through the done case of its select
StoppedByDone == runPc = "returned" /\ runErr = Nil

\* C6: once Stop has closed done, Run returns, and it can do so from its select
\* whatever the collection goroutines are doing; when it has returned through the
\* done case the root context and every pass's context are cancelled, and every
\* call that returns from then on returns a context error
C6_StopCancelsEveryPass ==
    /\ done ~> runPc = "returned"
    /\ []((done /\ runPc = "select") => ENABLED RunObserveDone)
    /\ [](StoppedByDone => (rootCtx = ErrCanceled /\ \A p \in 1..Len(jobCtx) : jobCtx[p] # Nil))
    /\ [][StoppedByDone => \A g \in Goroutines : NewErrs(g) \subseteq CtxErrs]_vars

\* C6 witness: Run has returned through the done case and a call that was still in
\* flight then has returned "context canceled"
C6_Witness ==
    /\ StoppedByDone /\ done
    /\ \E l \in logged : l.err = ErrCanceled
    /\ \E g \in Goroutines : InFlight(g) /\ jobCtx[gor[g].pass] = ErrCanceled

\* C7: at its select Run can always take the next tick (up to the bound on the
\* goroutines of a run), whatever the goroutines of earlier passes are doing; a tick
\* launches one goroutine per target and leaves Run at its select; no step of a
\* collection goroutine changes where Run is; and Run returns only from
\* newGithubClient or through the done case
C7_TicksNeverWait ==
    /\ []((~crashed /\ runPc = "select"
             /\ Len(gor) + Len(cfg.Repos) + Len(cfg.Orgs) <= MaxGoroutines) => ENABLED Tick)
    /\ [][Len(jobCtx') > Len(jobCtx) =>
            /\ runPc' = "select"
            /\ Len(gor') = Len(gor) + Len(cfg.Repos) + Len(cfg.Orgs)
            /\ \A g \in (Len(gor) + 1)..Len(gor') :
                 gor'[g].pc = "start" /\ gor'[g].pass = Len(jobCtx')]_vars
    /\ [][(gor' # gor /\ Len(gor') = Len(gor)) => (runPc' = runPc /\ runErr' = runErr)]_vars
    /\ [][(runPc' = "returned" /\ runPc # "returned") => (runPc = "newClient" \/ done)]_vars

\* C7 witness: Run is back at its select after a second tick while a call of the
\* first pass is still in flight and a target of the second pass has failed
C7_Witness ==
    /\ runPc = "select" /\ ~done /\ Len(jobCtx) >= 2
    /\ \E g \in Goroutines : gor[g].pass = 1 /\ InFlight(g)
    /\ \E l \in logged : gor[l.g].pass = 2

\* C8: a tick adds one context, derived from the root, for the goroutines it
\* launches; the expiry of one pass's deadline changes no other pass's context; a
\* call returns a context error exactly when the context of its own pass is done,
\* and then that context's error; and a cancelled root means every pass cancelled
\* or expired
C8_OneContextPerPass ==
    /\ [][\A p \in 1..Len(jobCtx) :
            (jobCtx[p] = Nil /\ jobCtx'[p] = ErrDeadline) =>
              \A q \in 1..Len(jobCtx) \ {p} : jobCtx'[q] = jobCtx[q]]_vars
    /\ [][Len(jobCtx') > Len(jobCtx) =>
            /\ jobCtx' = Append(jobCtx, rootCtx)
            /\ \A g \in (Len(gor) + 1)..Len(gor') : gor'[g].pass = Len(jobCtx')]_vars
    /\ [][\A g \in Goroutines : \A e \in NewErrs(g) :
            IF jobCtx[gor[g].pass] # Nil THEN e = jobCtx[gor[g].pass] ELSE e \notin CtxErrs]_vars
    /\ [](rootCtx = ErrCanceled => \A p \in 1..Len(jobCtx) : jobCtx[p] # Nil)

\* C8 witness: the first pass ran into its deadline, its call returned the deadline
\* error, and the second pass's context is live and its call succeeded
C8_Witness ==
    /\ Len(jobCtx) >= 2 /\ jobCtx[1] = ErrDeadline /\ jobCtx[2] = Nil
    /\ \E l \in logged : gor[l.g].pass = 1 /\ l.err = ErrDeadline
    /\ \E g \in Goroutines : gor[g].pass = 2 /\ gor[g].pc = "done" /\ \A l \in logged : l.g # g

\* the section carries a cancellation or deadline error
CtxErrorSet(section) == ErrorSet(section) /\ section.error \in CtxErrs

C11_FetchIssuedOnlyWhileLive ==
    [][\A c \in issued' \ issued :
         c.fetch \in KindSet => jobCtx[gor[c.g].pass] = Nil]_vars

\* C11 (amended): newFullRepoEvent does not look at the context; when a call
\* returns with the context of its pass done, it returns that context's error, its
\* section holds the error and no data, and the next call is issued all the same
\* (after the last one the event goes to PublishEvent)
C11_DoneContextCallsFailAndGoOn ==
    [][\A g \in Goroutines :
         (gor[g].pc = "sub" /\ jobCtx[gor[g].pass] # Nil /\ jobCtx' = jobCtx
            /\ gor'[g] # gor[g]) =>
           \E kind \in gor[g].inflight :
             LET err == jobCtx[gor[g].pass]
                 repo == gor[g].repos[gor[g].idx]
             IN  /\ gor'[g].ret = (kind :> err) @@ gor[g].ret
                 /\ gor'[g].sect[kind] = Section(kind, ZeroValue(kind), err, <<>>)
                 /\ ErrorSet(gor'[g].sect[kind])
                 /\ \A k \in StartedAfter(kind) :
                      /\ k \in gor'[g].inflight
                      /\ Call(g, k, repo.Owner.Login, repo.Name) \in issued'
                 /\ gor'[g].pc = IF StartedAfter(kind) = {} THEN "publish" ELSE "sub"]_vars

\* C11 witness: a call is in flight that was issued after an earlier call of the
\* same aggregation had returned the error of the done context
C11_Witness ==
    \E g \in Goroutines :
      /\ gor[g].pc = "sub" /\ gor[g].inflight # {}
      /\ jobCtx[gor[g].pass] \in CtxErrs
      /\ \E kind \in DOMAIN gor[g].ret : gor[g].ret[kind] = jobCtx[gor[g].pass]

\* C12: the event goes to PublishEvent only when all seven calls of its repository
\* have returned and none is in flight; every published event has its seven
\* sections; and no call issued later is for a repository whose event the
\* goroutine has already published
C12_PublishAfterAllSubFetches ==
    /\ [](\A g \in Goroutines :
            /\ gor[g].pc = "publish" =>
                 /\ gor[g].inflight = {}
                 /\ DOMAIN gor[g].ret = KindSet
                 /\ DOMAIN gor[g].sect = KindSet
            /\ \A i \in 1..Len(published[g]) :
                 /\ DOMAIN published[g][i].ret = KindSet
                 /\ KindSet \subseteq DOMAIN published[g][i].event)
    /\ [][\A g \in Goroutines :
            /\ Len(published'[g]) > Len(published[g]) =>
                 /\ gor[g].pc = "publish" /\ gor[g].inflight = {}
                 /\ \A kind \in KindSet :
                      Call(g, kind, gor[g].base.owner, gor[g].base.repo) \in issued
            /\ \A c \in issued' \ issued :
                 (c.g = g /\ c.fetch \in KindSet) =>
                   \A i \in 1..Len(published'[g]) :
                     [owner |-> c.owner, name |-> c.name] # PublishedRepos(g)'[i]]_vars

\* C12 witness: an event was published with sections that failed, and the goroutine
\* is now fetching for its next repository
C12_Witness ==
    \E g \in Goroutines :
      /\ Len(published[g]) > 0 /\ gor[g].pc = "sub" /\ gor[g].inflight # {}
      /\ \E kind \in KindSet : published[g][1].ret[kind] # Nil

\* the calls of goroutine g for the sub-resources of one repository
CallsFor(g, id) == {c \in SubCalls(g) : c.owner = id.owner /\ c.name = id.name}

\* C16: every call for a sub-resource is for a repository whose base data the
\* goroutine obtained, never for a fork; a call is issued for a kind only once
\* in an aggregation; and for each published event exactly seven were issued,
\* one per kind, whatever the number of forks listed in the event
C16_SevenCallsPerRepository ==
    /\ [](\A g \in Goroutines :
            /\ \A c \in SubCalls(g) :
                 \E i \in DOMAIN Obtained(g) :
                   Obtained(g)[i] = [owner |-> c.owner, name |-> c.name]
            /\ \A i \in 1..Len(published[g]) :
                 /\ CallsFor(g, PublishedRepos(g)[i]) =
                      {Call(g, kind, PublishedRepos(g)[i].owner, PublishedRepos(g)[i].name) :
                         kind \in KindSet}
                 /\ Cardinality(CallsFor(g, PublishedRepos(g)[i])) = Len(Kinds)
                 /\ \A f \in DOMAIN published[g][i].event.fork_list.list :
                      LET fork == published[g][i].event.fork_list.list[f]
                      IN  \A c \in issued : ~(c.owner = fork.owner /\ c.name = fork.repo))
    /\ [][\A g \in Goroutines :
            (gor[g].pc = "sub" /\ gor'[g].ret # gor[g].ret) =>
              /\ Cardinality(issued' \ issued) <= 1
              /\ \A c \in issued' \ issued :
                   /\ c.g = g
                   /\ Identity(gor[g].repos[gor[g].idx]) = [owner |-> c.owner, name |-> c.name]
                   /\ c.fetch \in KindSet \ (DOMAIN gor[g].ret \cup gor[g].inflight)]_vars

\* C16 witness: an event was published whose fork listing succeeded with two forks
C16_Witness ==
    \E g \in Goroutines : \E i \in 1..Len(published[g]) :
      /\ published[g][i].ret["fork_list"] = Nil
      /\ published[g][i].event.fork_list.count = 2

\* every goroutine launched by pass p has returned
PassDone(p) == \A g \in Goroutines : gor[g].pass = p => gor[g].pc = "done"

\* C17 (as stated, in its weakest reading): the context of a pass whose work has
\* all completed is cancelled or expired by the time Run takes its next tick, so
\* the live contexts of completed passes do not pile up tick after tick
C17_ContextReleasedWhenWorkDone ==
    [][Len(jobCtx') > Len(jobCtx) =>
         \A p \in 1..Len(jobCtx) : PassDone(p) => jobCtx[p] # Nil]_vars

\* C19 (as stated): PublishEvent is never called on the client once Stop has
\* closed it
C19_NoPublishAfterClose ==
    \A e \in AllPublished : e.client # "closed"

\* C20 (as stated): no interleaving of Run and Stop faults the process; Stop
\* never calls Close on a client field that Run has not assigned
C20_StopNeverFaults ==
    ~crashed

\* the sum of the numbers of an array, from its last element
RECURSIVE Total(_)
Total(array) ==
    IF Len(array) = 0 THEN 0
    ELSE array[Len(array)] + Total(SubSeq(array, 1, Len(array) - 1))

\* C13: in every published event, whatever weekly arrays the remote returned, the
\* participation section has community = all - owner, with all and owner the sums
\* of the two arrays; and all three are 0 when the call failed or returned no data
C13_CommunityIsAllMinusOwner ==
    \A e \in AllPublished :
      LET p == e.event.participation IN
        /\ p.community = p.all - p.owner
        /\ IF e.ret["participation"] = Nil /\ remote.part # NilPtr
           THEN p.all = Total(remote.part.All) /\ p.owner = Total(remote.part.Owner)
           ELSE p.all = 0 /\ p.owner = 0 /\ p.community = 0

\* C13 witness: an event was published from weekly arrays of different lengths with
\* commits of the owner, and its community count is not its all count
C13_Witness ==
    \E e \in AllPublished :
      /\ e.ret["participation"] = Nil /\ remote.part # NilPtr
      /\ Len(remote.part.All) # Len(remote.part.Owner)
      /\ e.event.participation.owner > 0
      /\ e.event.participation.community # e.event.participation.all

\* C14 (as stated): no entry of a published languages section has a ratio with a
\* zero denominator, whatever the language map (empty, all byte counts 0, call
\* failed); and an empty map or a failed call gives no entries
C14_NoZeroDenominator ==
    \A e \in AllPublished :
      LET l == e.event.languages IN
        /\ \A i \in DOMAIN l.list : l.list[i].ratio.den # 0
        /\ (e.ret["languages"] # Nil \/ remote.langs = <<>>) => l.list = <<>>

\* the two events but for their timestamps
SameButTimestamp(e1, e2) ==
    /\ DOMAIN e1 = DOMAIN e2
    /\ \A key \in DOMAIN e1 \ {"@timestamp"} : e1[key] = e2[key]

\* C15 (as stated): two aggregations of the same repository over unchanged remote
\* data, with the same outcome of each call, publish events that are equal in every
\* field but the timestamp, the order of the entries of each list included
C15_SameEventTwice ==
    \A g, h \in Goroutines :
      \A i \in 1..Len(published[g]) : \A j \in 1..Len(published[h]) :
        (/\ PublishedRepos(g)[i] = PublishedRepos(h)[j]
         /\ published[g][i].ret = published[h][j].ret)
          => SameButTimestamp(published[g][i].event, published[h][j].event)

\* C18: in every published event each of the sections fork_list, contributor_list,
\* branch_list and languages has a count equal to the length of its list and an
\* error slot; after a failed call the count is 0, the list is empty and the slot
\* holds the call's error; after a successful one the slot is empty and the list
\* has one entry per item the remote holds
C18_ListSectionsWellFormed ==
    \A e \in AllPublished : \A kind \in ListKinds :
      LET s == e.event[kind]
          held == RemoteValue(kind, e.event.owner, e.event.repo, remote)
      IN  /\ {"count", "list", "error"} \subseteq DOMAIN s
          /\ s.count = Len(s.list)
          /\ IF e.ret[kind] # Nil
             THEN s.count = 0 /\ s.list = <<>> /\ s.error = e.ret[kind]
             ELSE /\ s.error = Nil
                  /\ s.count = IF kind = "languages" THEN Cardinality(DOMAIN held)
                               ELSE Len(held)

\* C18 witness: one event holds a fork listing of MaxItems entries and two
\* languages beside a branch listing whose call failed
C18_Witness ==
    \E e \in AllPublished :
      /\ e.ret["fork_list"] = Nil /\ e.event.fork_list.count = MaxItems
      /\ e.ret["branch_list"] = ErrRemote /\ e.event.branch_list.count = 0
      /\ e.ret["languages"] = Nil /\ e.event.languages.count = 2

====
